---- MODULE Spec2Model ----
(***************************************************************************)
(* Trip lifecycle and ledger settlement of the TMS backend.                *)
(*                                                                         *)
(* The state is the three MongoDB collections the controllers work on      *)
(* (trips, ledger entries, disputes) and the last HTTP request/response.   *)
(* Every handler is one action: under the specification Spec the handlers  *)
(* run one after the other, as the single-writer assumption of the design  *)
(* has it.                                                                 *)
(*                                                                         *)
(* Strings the code hands to parseFloat (request amounts, ObjectIds) are   *)
(* sequences of one-character strings, so that parseFloat is computed and  *)
(* not assumed.  Amounts are integers.                                     *)
(***************************************************************************)
EXTENDS Integers, Sequences, FiniteSets, TLC

VARIABLES trips, ledger, disputes, nextTripId, last, served, inflight

vars == <<trips, ledger, disputes, nextTripId, last, served, inflight>>

\* ------------------------------------------------------------------ bounds
MaxTrips == 1
MaxDisputes == 2
MaxRequests == 3
MaxInflight == 2

\* "Check max 4 files limit" of addAttachment
MaxAttachments == 4

\* ------------------------------------------------------- values and inputs
\* undefined / null of an id- or string-typed field
Null == <<>>

\* ObjectIds of the users that exist (hex strings)
Agent1 == <<"6", "a">>
Agent2 == <<"b", "2">>
AgentIds == {Agent1, Agent2}
\* a well-formed id that no user has
GhostId == <<"c", "3">>

Statuses == {"Active", "In Dispute", "Completed"}

DigitChars == <<"0", "1", "2", "3", "4", "5", "6", "7", "8", "9">>
IsDigit(c) == \E i \in 1..Len(DigitChars) : DigitChars[i] = c
DigitVal(c) == (CHOOSE i \in 1..Len(DigitChars) : DigitChars[i] = c) - 1

\* number of leading decimal digits of s
RECURSIVE LeadDigits(_)
LeadDigits(s) ==
  IF s = <<>> \/ ~IsDigit(Head(s)) THEN 0 ELSE 1 + LeadDigits(Tail(s))

\* value of the decimal digits s[1..n]
RECURSIVE DigitsValue(_, _)
DigitsValue(s, n) ==
  IF n = 0 THEN 0 ELSE 10 * DigitsValue(s, n - 1) + DigitVal(s[n])

\* a JavaScript number: NaN or an integer
NaN == [nan |-> TRUE, val |-> 0]
Num(v) == [nan |-> FALSE, val |-> v]

\* parseFloat of a string: optional sign, then the longest prefix of decimal
\* digits; NaN when there is none (undefined and "" included).  The strings
\* drawn here hold no "." and no exponent.
ParseFloat(s) ==
  LET neg == s # <<>> /\ Head(s) = "-"
      body == IF neg THEN Tail(s) ELSE s
      n == LeadDigits(body)
  IN IF n = 0 THEN NaN
     ELSE Num((IF neg THEN -1 ELSE 1) * DigitsValue(body, n))

\* x || 0 for a number x
OrZero(x) == IF x.nan \/ x.val = 0 THEN 0 ELSE x.val

\* ---------------------------------------------------------------- ledger
\* Ledger.find({ agent }): the agent's entries, in insertion order
LedgerFind(l, agent) == SelectSeq(l, LAMBDA e : e.agent = agent)

\* mutant of calcBalance: a fold that leaves out the 'Trip Closed' entries,
\* which closeTrip creates with isInformational
RECURSIVE calcBalanceSkipsTripClosed(_)
calcBalanceSkipsTripClosed(entries) ==
  IF entries = <<>> THEN 0
  ELSE LET n == Len(entries)
           entry == entries[n]
           sum == calcBalanceSkipsTripClosed(SubSeq(entries, 1, n - 1))
       IN IF entry.type = "Trip Closed" THEN sum
          ELSE IF entry.direction = "Credit" THEN sum + entry.amount
          ELSE sum - entry.amount

\* ledger.reduce((sum, entry) => Credit ? sum + amount : sum - amount, 0),
\* the fold every handler of the trip controller runs over Ledger.find
RECURSIVE calcBalance(_)
calcBalance(entries) ==
  IF entries = <<>> THEN 0
  ELSE LET n == Len(entries)
           entry == entries[n]
           sum == calcBalance(SubSeq(entries, 1, n - 1))
       IN IF entry.direction = "Credit" THEN sum + entry.amount
          ELSE sum - entry.amount

agentBalance(l, agent) == calcBalance(LedgerFind(l, agent))

\* the same reduce in getAgentPerformanceReport (stats.currentBalance)
RECURSIVE reportFold(_, _)
reportFold(entries, i) ==
  IF i = 0 THEN 0
  ELSE IF entries[i].direction = "Credit"
       THEN reportFold(entries, i - 1) + entries[i].amount
       ELSE reportFold(entries, i - 1) - entries[i].amount

currentBalance(l, agent) ==
  LET entries == LedgerFind(l, agent) IN reportFold(entries, Len(entries))

\* the paths of ledgerSchema that the handlers read back
LedgerPaths == {"tripId", "type", "amount", "balance", "agent", "direction"}

\* Ledger.create(doc): the schema is strict, so a key of doc that is not a
\* path of ledgerSchema (paymentMadeBy, isInformational, deductionsAddedBy)
\* is not stored
LedgerCreate(doc) == [k \in LedgerPaths |-> doc[k]]

\* index of the first entry Ledger.findOne({tripId, agent, type: 'Settlement'})
\* returns, 0 when there is none
findSettlement(l, tripId, agent) ==
  LET hits == {i \in 1..Len(l) : /\ l[i].tripId = tripId
                                 /\ l[i].agent = agent
                                 /\ l[i].type = "Settlement"}
  IN IF hits = {} THEN 0 ELSE CHOOSE i \in hits : \A j \in hits : i <= j

\* ----------------------------------------------------------------- trips
NumericKeys == {"cess", "kata", "expenses", "beta", "others"}
DeductionKeys == NumericKeys \cup {"othersReason", "addedBy", "addedByRole"}

\* deductions of a trip nobody has saved deductions for
NoDeductions ==
  [cess |-> 0, kata |-> 0, expenses |-> 0, beta |-> 0, others |-> 0,
   othersReason |-> "", addedBy |-> Null, addedByRole |-> ""]

\* parseFloat(val) || 0 of one entry of Object.entries(deductions): the
\* numeric fields are numbers, addedBy is an ObjectId (parsed as its hex
\* string), the reason and the role are text that starts with no digit
entryValue(d, key) ==
  IF key \in NumericKeys THEN OrZero(Num(d[key]))
  ELSE IF key = "addedBy" THEN OrZero(ParseFloat(d[key]))
  ELSE OrZero(NaN)

\* Object.entries(deductions).reduce(...) skipping the keys in skip
RECURSIVE sumEntries(_, _)
sumEntries(d, keys) ==
  IF keys = {} THEN 0
  ELSE LET key == CHOOSE k \in keys : TRUE
       IN entryValue(d, key) + sumEntries(d, keys \ {key})

\* onTripPayments.reduce((sum, p) => sum + (p.amount || 0), 0)
RECURSIVE sumPayments(_)
sumPayments(ps) ==
  IF ps = <<>> THEN 0 ELSE Head(ps).amount + sumPayments(Tail(ps))

\* Trip schema validation on save: the amount of a payment is a Number path,
\* and NaN does not cast to Number
castsToNumber(x) == ~x.nan

\* the request and response of the handler that ran last; failed names the
\* write that threw while the handler ran ("ledger", "audit"), "" when none
Reply(op, id, req, status, message) ==
  [op |-> op, id |-> id, req |-> req, status |-> status, message |-> message,
   failed |-> ""]

\* the reply of a handler during which a Ledger write threw (hit)
LedgerFailed(reply, hit) ==
  IF hit THEN [reply EXCEPT !.failed = "ledger"] ELSE reply

\* what is left of the appends that lead from before to after when the
\* Ledger.create at site fail of the try block throws: the writes before it
Cut(before, after, fail) ==
  IF fail = 0 \/ fail > Len(after) - Len(before) THEN after
  ELSE SubSeq(after, 1, Len(before) + fail - 1)

\* the Ledger.create at site fail was reached
Hit(before, after, fail) == fail > 0 /\ fail <= Len(after) - Len(before)

\* response without any change to the collections
Reject(op, id, req, status, message) ==
  /\ last' = Reply(op, id, req, status, message)
  /\ UNCHANGED <<trips, ledger, disputes, nextTripId>>

\* a handler that is not running
Idle ==
  [op |-> "", pc |-> "", id |-> 0, req |-> <<>>, doc |-> <<>>,
   existingEntry |-> 0]

\* the reply of a handler during which recording the audit entry failed
AuditFailed(reply, auditFails) ==
  IF auditFails THEN [reply EXCEPT !.failed = "audit"] ELSE reply

\* mutant of auditThrows: the logger passes its failure on to the caller
auditThrowsOnFailure(auditFails) == auditFails

\* createAuditLog rejects: the logger swallows and logs its own failures, so
\* the await in the handlers never throws
auditThrows(auditFails) == FALSE

Init ==
  /\ trips = <<>>
  /\ ledger = <<>>
  /\ disputes = <<>>
  /\ nextTripId = 1
  /\ last = Reply("none", 0, <<>>, 0, "")
  /\ served = 0
  /\ inflight = [s \in 1..MaxInflight |-> Idle]

\* ------------------------------------------------------------- createTrip
\* mutant of debitsAdvance: an advance of 0 is debited as well
debitsAdvanceOfZero(isBulk, advance) == ~isBulk /\ advance >= 0

\* the condition under which createTrip debits the advance
debitsAdvance(isBulk, advance) == ~isBulk /\ advance > 0

\* fail is the Ledger write of the handler that throws: 0 for none, 1 for
\* the 'Trip Created' entry, whose try block swallows the error
createTripWith(isBulk, freightAmount, advancePaid, agentId, fail) ==
  LET req == [isBulk |-> isBulk, freightAmount |-> freightAmount,
              advancePaid |-> advancePaid, agentId |-> agentId]
      freight == IF isBulk THEN 0 ELSE OrZero(ParseFloat(freightAmount))
      advance == IF isBulk THEN 0 ELSE OrZero(ParseFloat(advancePaid))
      balance == freight - advance
      id == nextTripId
      trip == [isBulk |-> isBulk, freight |-> freight, advance |-> advance,
               balance |-> balance, status |-> "Active", agent |-> agentId,
               deductions |-> NoDeductions, onTripPayments |-> <<>>,
               finalBalance |-> <<>>, closedBy |-> Null,
               attachments |-> <<>>]
  IN IF agentId = Null
     THEN Reject("createTrip", 0, req, 400, "agentId is required")
     ELSE IF agentId \notin AgentIds
     THEN Reject("createTrip", 0, req, 404, "Agent not found")
     ELSE /\ trips' = trips @@ (id :> trip)
          /\ nextTripId' = id + 1
          /\ ledger' = IF debitsAdvance(isBulk, advance) /\ fail # 1
                       THEN Append(ledger, LedgerCreate(
                              [tripId |-> id, type |-> "Trip Created",
                               amount |-> advance, balance |-> balance,
                               agent |-> agentId, direction |-> "Debit"]))
                       ELSE ledger
          /\ last' = LedgerFailed(Reply("createTrip", id, req, 201, ""),
                                  debitsAdvance(isBulk, advance) /\ fail = 1)
          /\ UNCHANGED disputes

createTrip(isBulk, freightAmount, advancePaid, agentId) ==
  createTripWith(isBulk, freightAmount, advancePaid, agentId, 0)

\* ------------------------------------------------------------- updateTrip
\* status is the req.body.status of the request, "" when it has none
updateTrip(id, status) ==
  LET req == [status |-> status]
  IN IF id \notin DOMAIN trips
     THEN Reject("updateTrip", id, req, 404, "Trip not found")
     ELSE /\ trips' = IF status # ""
                      THEN [trips EXCEPT ![id].status = status]
                      ELSE trips
          /\ last' = Reply("updateTrip", id, req, 200, "")
          /\ UNCHANGED <<ledger, disputes, nextTripId>>

\* ------------------------------------------------------------- deleteTrip
\* mutant of ledgerAfterDelete: the entries of the trip go with it
ledgerAfterDeleteCascades(l, id) == SelectSeq(l, LAMBDA e : e.tripId # id)

\* Trip.findByIdAndDelete removes the trip document and nothing else: the
\* ledger keeps the entries of the trip
ledgerAfterDelete(l, id) == l

\* auditFails: recording the audit entry fails; the audit call comes before
\* the delete, inside the handler's try block
deleteTripWith(id, auditFails) ==
  IF id \notin DOMAIN trips
  THEN Reject("deleteTrip", id, <<>>, 404, "Trip not found")
  ELSE IF auditThrows(auditFails)
  THEN /\ last' = AuditFailed(Reply("deleteTrip", id, <<>>, 500, "Server error"),
                              auditFails)
       /\ UNCHANGED <<trips, ledger, disputes, nextTripId>>
  ELSE /\ trips' = [t \in DOMAIN trips \ {id} |-> trips[t]]
       /\ ledger' = ledgerAfterDelete(ledger, id)
       /\ last' = AuditFailed(Reply("deleteTrip", id, <<>>, 200,
                                    "Trip deleted successfully"), auditFails)
       /\ UNCHANGED <<disputes, nextTripId>>

deleteTrip(id) == deleteTripWith(id, FALSE)

\* ------------------------------------------------------------- addPayment
\* mutant of paymentAllowed: only a Completed trip refuses payments
paymentAllowedUnlessCompleted(trip) == trip.status # "Completed"

\* the status check that opens addPayment
paymentAllowed(trip) == trip.status = "Active"

\* mutant of financeEntries: the Top-up credit is not written
financeEntriesDebitOnly(l, id, targetAgentId, paymentAmount, balance) ==
  Append(l, LedgerCreate(
    [tripId |-> id, type |-> "On-Trip Payment", amount |-> paymentAmount,
     balance |-> balance, agent |-> targetAgentId, direction |-> "Debit"]))

\* Finance pays on behalf of an agent: a Top-up credit, then an On-Trip
\* Payment debit, both on the selected agent
financeEntries(l, id, targetAgentId, paymentAmount, balance) ==
  LET topUp == [tripId |-> id, type |-> "Top-up", amount |-> paymentAmount,
                balance |-> agentBalance(l, targetAgentId) + paymentAmount,
                agent |-> targetAgentId, direction |-> "Credit",
                paymentMadeBy |-> "Finance"]
      onTrip == [tripId |-> id, type |-> "On-Trip Payment",
                 amount |-> paymentAmount, balance |-> balance,
                 agent |-> targetAgentId, direction |-> "Debit",
                 paymentMadeBy |-> "Finance"]
  IN Append(Append(l, LedgerCreate(topUp)), LedgerCreate(onTrip))

\* mutant of agentEntries: the trip creator gets no entry
agentEntriesPayerOnly(l, id, tripCreatorId, targetAgentId, paymentAmount, balance) ==
  Append(l, LedgerCreate(
    [tripId |-> id, type |-> "On-Trip Payment", amount |-> paymentAmount,
     balance |-> balance, agent |-> targetAgentId, direction |-> "Debit"]))

\* an agent pays: a debit on the payer, then an entry on the trip creator
\* when the creator is someone else
agentEntries(l, id, tripCreatorId, targetAgentId, paymentAmount, balance) ==
  LET onTrip == [tripId |-> id, type |-> "On-Trip Payment",
                 amount |-> paymentAmount, balance |-> balance,
                 agent |-> targetAgentId, direction |-> "Debit",
                 paymentMadeBy |-> "Agent"]
      l1 == Append(l, LedgerCreate(onTrip))
      creatorEntry == [tripId |-> id, type |-> "On-Trip Payment",
                       amount |-> paymentAmount,
                       balance |-> agentBalance(l1, tripCreatorId),
                       agent |-> tripCreatorId, direction |-> "Debit",
                       paymentMadeBy |-> "Agent", isInformational |-> TRUE]
  IN IF tripCreatorId # Null /\ tripCreatorId # targetAgentId
     THEN Append(l1, LedgerCreate(creatorEntry))
     ELSE l1

\* the "Recalculate balance" block of addPayment
paymentBalance(trip, onTripPayments) ==
  LET totalPayments == sumPayments(onTripPayments)
      totalDeductions ==
        sumEntries(trip.deductions, DOMAIN trip.deductions \ {"othersReason"})
      initialBalance == trip.freight - trip.advance
  IN initialBalance - totalDeductions - totalPayments

\* fail is the Ledger write that throws: 0 for none, 1 or 2 for the first or
\* the second Ledger.create of the branch taken; both are in one try block,
\* whose catch logs the error and goes on
addPaymentWith(id, amount, agentId, userRole, userId, fail) ==
  LET req == [amount |-> amount, agentId |-> agentId, userRole |-> userRole,
              userId |-> userId]
      trip == trips[id]
      isFinancePayment == userRole = "Finance"
      targetAgentId == IF isFinancePayment THEN agentId ELSE userId
      paymentAmount == ParseFloat(amount)
      payment == [amount |-> paymentAmount.val,
                  addedBy |-> IF userId # Null THEN userId ELSE targetAgentId,
                  addedByRole |-> IF userRole # "" THEN userRole ELSE "Agent"]
      onTripPayments == Append(trip.onTripPayments, payment)
      balance == paymentBalance(trip, onTripPayments)
      entries == IF isFinancePayment
                 THEN financeEntries(ledger, id, targetAgentId,
                                     paymentAmount.val, balance)
                 ELSE agentEntries(ledger, id, trip.agent, targetAgentId,
                                   paymentAmount.val, balance)
  IN IF id \notin DOMAIN trips
     THEN Reject("addPayment", id, req, 404, "Trip not found")
     ELSE IF ~paymentAllowed(trip)
     THEN Reject("addPayment", id, req, 400,
                 "Mid-trip payments can only be added for Active trips")
     ELSE IF isFinancePayment /\ agentId = Null
     THEN Reject("addPayment", id, req, 400,
                 "Agent selection is required for Finance payments")
     ELSE IF ~isFinancePayment /\ userId = Null
     THEN Reject("addPayment", id, req, 400,
                 "User ID is required for Agent payments")
     ELSE IF ~castsToNumber(paymentAmount)
     \* trip.save() rejects; the catch block reads targetAgentId, which is
     \* scoped to the try block, so its own try fails and it answers 500
     THEN Reject("addPayment", id, req, 500, "Server error")
     ELSE /\ trips' = [trips EXCEPT ![id].onTripPayments = onTripPayments,
                                    ![id].balance = balance]
          /\ ledger' = Cut(ledger, entries, fail)
          /\ last' = LedgerFailed(Reply("addPayment", id, req, 200, ""),
                                  Hit(ledger, entries, fail))
          /\ UNCHANGED <<disputes, nextTripId>>

addPayment(id, amount, agentId, userRole, userId) ==
  addPaymentWith(id, amount, agentId, userRole, userId, 0)

\* ------------------------------------------------------- updateDeductions
\* mutant of mergeDeductions: a key of the body is added to the stored value
mergeDeductionsAddsUp(old, body) ==
  [k \in DOMAIN old |->
     IF k \in DOMAIN body
     THEN IF k \in NumericKeys THEN old[k] + body[k] ELSE body[k]
     ELSE old[k]]

\* { ...trip.deductions, ...req.body }: a key of the body replaces the
\* stored value, every other key keeps it
mergeDeductions(old, body) ==
  [k \in DOMAIN old |-> IF k \in DOMAIN body THEN body[k] ELSE old[k]]

\* mutant of upsertSettlement: an existing entry grows by the new total
upsertSettlementAddsUp(l, id, deductionsAddedBy, totalDeductions) ==
  LET existingEntry == findSettlement(l, id, deductionsAddedBy)
  IN IF existingEntry # 0
     THEN [l EXCEPT ![existingEntry].amount = @ + totalDeductions]
     ELSE Append(l, LedgerCreate(
            [tripId |-> id, type |-> "Settlement", amount |-> totalDeductions,
             balance |-> agentBalance(l, deductionsAddedBy) - totalDeductions,
             agent |-> deductionsAddedBy, direction |-> "Debit"]))

\* the Settlement entry of the agent who saved the deductions: the existing
\* one gets the new amount and then the balance read back, a new one is
\* created when there is none
upsertSettlement(l, id, deductionsAddedBy, totalDeductions) ==
  LET existingEntry == findSettlement(l, id, deductionsAddedBy)
      amended == [l EXCEPT ![existingEntry].amount = totalDeductions]
      updated == [amended EXCEPT ![existingEntry].balance =
                                   agentBalance(amended, deductionsAddedBy)]
      created ==
        Append(l, LedgerCreate(
          [tripId |-> id, type |-> "Settlement", amount |-> totalDeductions,
           balance |-> agentBalance(l, deductionsAddedBy) - totalDeductions,
           agent |-> deductionsAddedBy, direction |-> "Debit",
           deductionsAddedBy |-> deductionsAddedBy]))
  IN IF existingEntry # 0 THEN updated ELSE created

\* fail is the Ledger write that throws: 0 for none, 1 for the first save or
\* the create of the Settlement entry, 2 for the save of its balance; the
\* try block around them logs the error and goes on
updateDeductionsWith(id, body, fail) ==
  LET trip == trips[id]
      deductions == mergeDeductions(trip.deductions, body)
      totalDeductions ==
        sumEntries(deductions,
                   DOMAIN deductions \ {"othersReason", "addedBy", "addedByRole"})
      totalPayments == sumPayments(trip.onTripPayments)
      initialBalance == trip.freight - trip.advance
      balance == initialBalance - totalDeductions - totalPayments
      deductionsAddedBy ==
        IF "addedBy" \in DOMAIN body /\ body.addedBy # Null THEN body.addedBy
        ELSE IF deductions.addedBy # Null THEN deductions.addedBy
        ELSE trip.agent
      writes == /\ totalDeductions > 0
                /\ deductionsAddedBy # Null
                /\ trip.status = "Active"
      existingEntry == findSettlement(ledger, id, deductionsAddedBy)
  IN IF id \notin DOMAIN trips
     THEN Reject("updateDeductions", id, body, 404, "Trip not found")
     ELSE IF trip.status = "Completed"
     THEN Reject("updateDeductions", id, body, 400,
                 "Cannot update deductions for completed trips")
     ELSE /\ trips' = [trips EXCEPT ![id].deductions = deductions,
                                    ![id].balance = balance]
          /\ ledger' = IF ~writes \/ fail = 1 THEN ledger
                       ELSE IF fail = 2 /\ existingEntry # 0
                       THEN [ledger EXCEPT ![existingEntry].amount =
                                             totalDeductions]
                       ELSE upsertSettlement(ledger, id, deductionsAddedBy,
                                             totalDeductions)
          /\ last' = LedgerFailed(
                        Reply("updateDeductions", id, body, 200, ""),
                        /\ writes
                        /\ \/ fail = 1
                           \/ fail = 2 /\ existingEntry # 0)
          /\ UNCHANGED <<disputes, nextTripId>>

updateDeductions(id, body) == updateDeductionsWith(id, body, 0)

\* -------------------------------------------------------------- closeTrip
\* mutant of openDisputeExists: the lookup never finds a dispute
openDisputeExistsNever(ds, tripId) == FALSE

\* Dispute.findOne({ tripId, status: 'Open' }) finds a dispute
openDisputeExists(ds, tripId) ==
  \E i \in 1..Len(ds) : ds[i].tripId = tripId /\ ds[i].status = "Open"

\* finalBalance of a regular trip as closeTrip computes it
closeTotalDeductions(trip) ==
  sumEntries(trip.deductions, DOMAIN trip.deductions \ {"othersReason", "beta"})

agentPayments(trip) ==
  sumPayments(SelectSeq(trip.onTripPayments,
                        LAMBDA p : p.addedByRole # "Finance"))

financePayments(trip) ==
  sumPayments(SelectSeq(trip.onTripPayments,
                        LAMBDA p : p.addedByRole = "Finance"))

computeFinalBalance(trip) ==
  (trip.freight - trip.advance) - closeTotalDeductions(trip)
    - agentPayments(trip) + financePayments(trip)

\* mutant of createsCreatorEntry: an entry the creator has is not looked for
createsCreatorEntryAgain(l, id, tripCreatorId, deductionsAddedBy) ==
  tripCreatorId # deductionsAddedBy

\* "Entry 1": the trip creator gets a Settlement entry when someone else
\* saved the deductions and Ledger.findOne finds none for the creator
createsCreatorEntry(l, id, tripCreatorId, deductionsAddedBy) ==
  /\ tripCreatorId # deductionsAddedBy
  /\ findSettlement(l, id, tripCreatorId) = 0

\* the Ledger write of the Settlement block of closeTrip that throws is
\* reached: 1 is the create for the trip creator, 2 the save or create for
\* the agent who saved the deductions
settlementWriteFails(l, id, trip, fail) ==
  LET deductionsAddedBy == IF trip.deductions.addedBy # Null
                           THEN trip.deductions.addedBy ELSE trip.agent
  IN /\ closeTotalDeductions(trip) > 0
     /\ \/ /\ fail = 1
           /\ trip.agent # deductionsAddedBy
           /\ findSettlement(l, id, trip.agent) = 0
        \/ fail = 2 /\ deductionsAddedBy # Null

\* the Settlement entries closeTrip writes or refreshes before it saves;
\* the block is one try, so a write that throws ends it and keeps what was
\* written before
closeSettlementsWith(l, id, trip, fail) ==
  LET totalDeductions == closeTotalDeductions(trip)
      tripCreatorId == trip.agent
      deductionsAddedBy == IF trip.deductions.addedBy # Null
                           THEN trip.deductions.addedBy ELSE trip.agent
      settlement(ll, agent) ==
        LedgerCreate(
          [tripId |-> id, type |-> "Settlement", amount |-> totalDeductions,
           balance |-> agentBalance(ll, agent) - totalDeductions,
           agent |-> agent, direction |-> "Debit",
           deductionsAddedBy |-> deductionsAddedBy])
      \* entry 1: the trip creator, when someone else saved the deductions
      l1 == IF createsCreatorEntry(l, id, tripCreatorId, deductionsAddedBy)
            THEN Append(l, settlement(l, tripCreatorId))
            ELSE l
      \* entry 2: the agent who saved the deductions
      existingDeductionsEntry == findSettlement(l1, id, deductionsAddedBy)
      l2 == IF deductionsAddedBy = Null THEN l1
            ELSE IF existingDeductionsEntry # 0
            THEN [l1 EXCEPT ![existingDeductionsEntry].balance =
                              agentBalance(l1, deductionsAddedBy)]
            ELSE Append(l1, settlement(l1, deductionsAddedBy))
  IN IF totalDeductions = 0 THEN l
     ELSE IF ~settlementWriteFails(l, id, trip, fail) THEN l2
     ELSE IF fail = 1 THEN l
     ELSE l1

closeSettlements(l, id, trip) == closeSettlementsWith(l, id, trip, 0)

\* mutant of creatorCloses: the rule fires for every Agent but the creator
creatorClosesInverted(closedByRole, closedBy, tripCreatorId) ==
  /\ closedByRole = "Agent"
  /\ closedBy # Null
  /\ tripCreatorId # Null
  /\ closedBy # tripCreatorId

\* "Trip creator cannot close trip (only for Agents)"
creatorCloses(closedByRole, closedBy, tripCreatorId) ==
  /\ closedByRole = "Agent"
  /\ closedBy # Null
  /\ tripCreatorId # Null
  /\ closedBy = tripCreatorId

\* mutant of disputeBlocks: forceClose does not lift the gate
disputeBlocksEvenForced(openDispute, forceClose) == openDispute

\* openDispute && !forceClose
disputeBlocks(openDispute, forceClose) == openDispute /\ ~forceClose

\* mutant of agentMustSettle: only an amount still owed stops an Agent
agentMustSettleOwedOnly(closedByRole, finalBalance) ==
  closedByRole = "Agent" /\ finalBalance > 0

\* mutant of agentMustSettle: the balance must be 0 whoever closes
agentMustSettleWhoeverCloses(closedByRole, finalBalance) == finalBalance # 0

\* closedByRole === 'Agent' && Math.abs(finalBalance) > 0.01, the amounts
\* being integers
agentMustSettle(closedByRole, finalBalance) ==
  closedByRole = "Agent" /\ finalBalance # 0

\* mutant of skipsSettlement: a bulk trip is settled like a regular one
skipsSettlementNever(trip) == FALSE

\* "Handle Bulk trips - mark as Completed directly"
skipsSettlement(trip) == trip.isBulk

\* mutant of creditsBeta: the credit is written whatever beta is
creditsBetaAlways(betaAmount) == TRUE

\* "Beta/Batta Credit Back": if (betaAmount > 0)
creditsBeta(betaAmount) == betaAmount > 0

\* mutant of statusAfterThrow: the catch block always answers 500
statusAfterThrowAlways500(status) == 500

\* the catch block of closeTrip reads the trip again and answers with it
\* when its status is Completed, with 500 otherwise
statusAfterThrow(status) == IF status = "Completed" THEN 200 ELSE 500

\* fail is the Ledger write that throws: 0 for none, 1 and 2 for the
\* Settlement block, 3 for the 'Trip Closed' entry (its own try block), 4
\* for the 'Beta/Batta Credit' entry, which no try block of its own guards:
\* the handler's catch finds the trip Completed and answers with it
closeTripWith(id, forceClose, closedBy, closedByRole, fail) ==
  LET req == [forceClose |-> forceClose, closedBy |-> closedBy,
              closedByRole |-> closedByRole]
      trip == trips[id]
      tripCreatorId == trip.agent
      betaAmount == OrZero(Num(trip.deductions.beta))
      finalBalance == computeFinalBalance(trip)
      closingAgentId == IF closedBy # Null THEN closedBy ELSE trip.agent
      settled == closeSettlementsWith(ledger, id, trip, fail)
      tripClosed ==
        IF fail = 3 THEN settled
        ELSE
        Append(settled, LedgerCreate(
          [tripId |-> id, type |-> "Trip Closed", amount |-> finalBalance,
           balance |-> agentBalance(settled, closingAgentId),
           agent |-> closingAgentId, direction |-> "Debit",
           isInformational |-> TRUE]))
      betaCredit ==
        Append(tripClosed, LedgerCreate(
          [tripId |-> id, type |-> "Beta/Batta Credit", amount |-> betaAmount,
           balance |-> agentBalance(tripClosed, trip.agent) + betaAmount,
           agent |-> trip.agent, direction |-> "Credit"]))
  IN IF id \notin DOMAIN trips
     THEN Reject("closeTrip", id, req, 404, "Trip not found")
     ELSE IF creatorCloses(closedByRole, closedBy, tripCreatorId)
     THEN Reject("closeTrip", id, req, 400, "Trip creator cannot close the trip")
     ELSE IF disputeBlocks(openDisputeExists(disputes, id), forceClose)
     THEN Reject("closeTrip", id, req, 400,
                 "Cannot close trip with open dispute")
     ELSE IF skipsSettlement(trip)
     THEN /\ trips' = [trips EXCEPT ![id].status = "Completed",
                                    ![id].closedBy = trip.agent]
          /\ last' = Reply("closeTrip", id, req, 200, "")
          /\ UNCHANGED <<ledger, disputes, nextTripId>>
     ELSE IF agentMustSettle(closedByRole, finalBalance)
     THEN Reject("closeTrip", id, req, 400,
                 IF finalBalance > 0
                 THEN IF agentBalance(ledger, closedBy) < finalBalance
                      THEN "Your balance is not enough to close this trip"
                      ELSE "Final balance must be 0. Please pay first"
                 ELSE "Final balance must be 0")
     ELSE /\ trips' = [trips EXCEPT ![id].status = "Completed",
                                    ![id].finalBalance = <<finalBalance>>,
                                    ![id].closedBy = closingAgentId]
          /\ ledger' = IF creditsBeta(betaAmount) /\ fail # 4
                       THEN betaCredit ELSE tripClosed
          /\ last' = LedgerFailed(
                        Reply("closeTrip", id, req,
                              IF fail = 4 /\ creditsBeta(betaAmount)
                              THEN statusAfterThrow("Completed") ELSE 200, ""),
                        \/ settlementWriteFails(ledger, id, trip, fail)
                        \/ fail = 3
                        \/ fail = 4 /\ creditsBeta(betaAmount))
          /\ UNCHANGED <<disputes, nextTripId>>

closeTrip(id, forceClose, closedBy, closedByRole) ==
  closeTripWith(id, forceClose, closedBy, closedByRole, 0)

\* ---------------------------------------------------------- createDispute
createDispute(tripId, agentId) ==
  LET req == [tripId |-> tripId, agentId |-> agentId]
      trip == trips[tripId]
  IN IF agentId = Null
     THEN Reject("createDispute", tripId, req, 400, "agentId is required")
     ELSE IF tripId \notin DOMAIN trips
     THEN Reject("createDispute", tripId, req, 404, "Trip not found")
     ELSE IF trip.agent # agentId
     THEN Reject("createDispute", tripId, req, 400,
                 "Agent ID does not match trip agent")
     ELSE IF trip.status # "Active"
     THEN Reject("createDispute", tripId, req, 400,
                 "Disputes can only be raised for Active trips")
     ELSE IF openDisputeExists(disputes, tripId)
     THEN Reject("createDispute", tripId, req, 400,
                 "An open dispute already exists for this trip")
     ELSE /\ disputes' = Append(disputes, [tripId |-> tripId, agent |-> agentId,
                                           status |-> "Open"])
          /\ trips' = [trips EXCEPT ![tripId].status = "In Dispute"]
          /\ last' = Reply("createDispute", tripId, req, 201, "")
          /\ UNCHANGED <<ledger, nextTripId>>

\* --------------------------------------------------------- resolveDispute
\* d is the position of the dispute in the collection
\* mutant of isResolved: a Resolved dispute is resolved again
isResolvedNever(dispute) == FALSE

\* dispute.status === 'Resolved'
isResolved(dispute) == dispute.status = "Resolved"

\* auditFails: recording the audit entry fails; the audit call comes after
\* the dispute and the trip are saved, inside the handler's try block
resolveDisputeWith(d, auditFails) ==
  LET dispute == disputes[d]
  IN IF d \notin 1..Len(disputes)
     THEN Reject("resolveDispute", d, <<>>, 404, "Dispute not found")
     ELSE IF isResolved(dispute)
     THEN Reject("resolveDispute", d, <<>>, 400, "Dispute is already resolved")
     ELSE /\ disputes' = [disputes EXCEPT ![d].status = "Resolved"]
          /\ trips' = IF dispute.tripId \in DOMAIN trips
                      THEN [trips EXCEPT ![dispute.tripId].status = "Active"]
                      ELSE trips
          /\ last' = AuditFailed(
                        IF auditThrows(auditFails)
                        THEN Reply("resolveDispute", d, <<>>, 500, "Server error")
                        ELSE Reply("resolveDispute", d, <<>>, 200, ""),
                        auditFails)
          /\ UNCHANGED <<ledger, nextTripId>>

resolveDispute(d) == resolveDisputeWith(d, FALSE)

\* ------------------------------------------------------------ the requests
TripIds == 1..MaxTrips

CreateRequests ==
  {[isBulk |-> FALSE, freightAmount |-> <<"2">>, advancePaid |-> a,
    agentId |-> Agent1] : a \in {<<>>, <<"1">>, <<"2">>}}
    \cup {[isBulk |-> b, freightAmount |-> <<"2">>, advancePaid |-> <<"1">>,
           agentId |-> g] : b \in BOOLEAN, g \in {Agent2, Null, GhostId}}

PaymentRequests ==
  {[amount |-> <<"2">>, agentId |-> g, userRole |-> "Finance", userId |-> Null] :
     g \in AgentIds \cup {Null}}
    \cup {[amount |-> <<"1">>, agentId |-> Null, userRole |-> "Agent",
           userId |-> u] : u \in AgentIds \cup {Null}}
    \cup {[amount |-> <<"1">>, agentId |-> Null, userRole |-> "", userId |-> Agent2],
          [amount |-> <<"x">>, agentId |-> Null, userRole |-> "Agent",
           userId |-> Agent1],
          [amount |-> <<>>, agentId |-> Agent1, userRole |-> "Finance",
           userId |-> Null]}

DeductionBodies ==
  {[cess |-> 1], [cess |-> 2, kata |-> 1], [cess |-> 0], [beta |-> 1]}
    \cup {[cess |-> 1, beta |-> 1, addedBy |-> a, addedByRole |-> "Agent"] :
            a \in AgentIds}

CloseRequests ==
  {[forceClose |-> FALSE, closedBy |-> c, closedByRole |-> "Agent"] :
     c \in AgentIds \cup {Null}}
    \cup {[forceClose |-> f, closedBy |-> Agent2, closedByRole |-> r] :
            f \in BOOLEAN, r \in {"Admin", "Finance"}}
    \cup {[forceClose |-> TRUE, closedBy |-> Agent2, closedByRole |-> "Agent"],
          [forceClose |-> FALSE, closedBy |-> Null, closedByRole |-> "Admin"]}

\* a request that was answered with success counts against MaxRequests
Served == served' = IF last'.status < 400 THEN served + 1 ELSE served

\* a run is followed while fewer than limit requests were served and up to
\* the first request that is refused: a refused request changes nothing but
\* the reply, so the requests after it find what they would have found
\* without it
Pending(limit) == served < limit /\ last.status < 400

CreateTripStep ==
  /\ Pending(MaxRequests)
  /\ nextTripId <= MaxTrips
  /\ \E r \in CreateRequests :
       createTrip(r.isBulk, r.freightAmount, r.advancePaid, r.agentId)
  /\ Served
  /\ UNCHANGED inflight

UpdateTripStep ==
  /\ Pending(MaxRequests)
  /\ \E id \in TripIds, status \in Statuses \cup {""} : updateTrip(id, status)
  /\ Served
  /\ UNCHANGED inflight

DeleteTripStep ==
  /\ Pending(MaxRequests)
  /\ \E id \in TripIds : deleteTrip(id)
  /\ Served
  /\ UNCHANGED inflight

AddPaymentStep ==
  /\ Pending(MaxRequests)
  /\ \E id \in TripIds, r \in PaymentRequests :
       addPayment(id, r.amount, r.agentId, r.userRole, r.userId)
  /\ Served
  /\ UNCHANGED inflight

UpdateDeductionsStep ==
  /\ Pending(MaxRequests)
  /\ \E id \in TripIds, body \in DeductionBodies : updateDeductions(id, body)
  /\ Served
  /\ UNCHANGED inflight

CloseTripStep ==
  /\ Pending(MaxRequests)
  /\ \E id \in TripIds, r \in CloseRequests :
       closeTrip(id, r.forceClose, r.closedBy, r.closedByRole)
  /\ Served
  /\ UNCHANGED inflight

CreateDisputeStep ==
  /\ Pending(MaxRequests)
  /\ Len(disputes) < MaxDisputes
  /\ \E tripId \in TripIds, agentId \in AgentIds \cup {Null} :
       createDispute(tripId, agentId)
  /\ Served
  /\ UNCHANGED inflight

ResolveDisputeStep ==
  /\ Pending(MaxRequests)
  /\ \E d \in 1..MaxDisputes : resolveDispute(d)
  /\ Served
  /\ UNCHANGED inflight

Next ==
  \/ CreateTripStep
  \/ UpdateTripStep
  \/ DeleteTripStep
  \/ AddPaymentStep
  \/ UpdateDeductionsStep
  \/ CloseTripStep
  \/ CreateDisputeStep
  \/ ResolveDisputeStep

Spec == Init /\ [][Next]_vars

\* ------------------------------------------- the life cycle, at more depth
\* The requests that move a trip between its statuses, one more of them per
\* run than in Spec and fewer variants of each.
LifecycleRequests == MaxRequests + 1

LifecycleCreates ==
  {r \in CreateRequests : r.agentId \in AgentIds /\ r.advancePaid = <<"1">>}

LifecycleCloses ==
  {r \in CloseRequests :
     r.closedBy = Agent2 /\ r.closedByRole \in {"Admin", "Agent"}}

LifecycleBodies ==
  {body \in DeductionBodies : "addedBy" \in DOMAIN body \/ body = [cess |-> 0]}

LifecycleCreateTrip ==
  /\ Pending(LifecycleRequests)
  /\ nextTripId <= MaxTrips
  /\ \E r \in LifecycleCreates :
       createTrip(r.isBulk, r.freightAmount, r.advancePaid, r.agentId)
  /\ Served
  /\ UNCHANGED inflight

LifecycleUpdateTrip ==
  /\ Pending(LifecycleRequests)
  /\ \E id \in TripIds, status \in Statuses : updateTrip(id, status)
  /\ Served
  /\ UNCHANGED inflight

LifecycleUpdateDeductions ==
  /\ Pending(LifecycleRequests)
  /\ \E id \in TripIds, body \in LifecycleBodies : updateDeductions(id, body)
  /\ Served
  /\ UNCHANGED inflight

LifecycleCloseTrip ==
  /\ Pending(LifecycleRequests)
  /\ \E id \in TripIds, r \in LifecycleCloses :
       closeTrip(id, r.forceClose, r.closedBy, r.closedByRole)
  /\ Served
  /\ UNCHANGED inflight

LifecycleCreateDispute ==
  /\ Pending(LifecycleRequests)
  /\ Len(disputes) < MaxDisputes
  /\ \E tripId \in TripIds, agentId \in AgentIds :
       createDispute(tripId, agentId)
  /\ Served
  /\ UNCHANGED inflight

LifecycleResolveDispute ==
  /\ Pending(LifecycleRequests)
  /\ \E d \in 1..MaxDisputes : resolveDispute(d)
  /\ Served
  /\ UNCHANGED inflight

NextLifecycle ==
  \/ LifecycleCreateTrip
  \/ LifecycleUpdateTrip
  \/ LifecycleUpdateDeductions
  \/ LifecycleCloseTrip
  \/ LifecycleCreateDispute
  \/ LifecycleResolveDispute

SpecLifecycle == Init /\ [][NextLifecycle]_vars

\* --------------------------------------------- writes that throw
\* The handlers with a Ledger write or the recording of the audit entry
\* failing while they run.
FaultCreates == {r \in CreateRequests : r.agentId = Agent1}

FaultPayments ==
  {r \in PaymentRequests :
     /\ r.amount \in {<<"1">>, <<"2">>}
     /\ r.userRole \in {"Finance", "Agent"}
     /\ Agent2 \in {r.agentId, r.userId}}

FaultCloses ==
  {r \in CloseRequests :
     r.closedBy = Agent2 /\ r.closedByRole = "Admin" /\ ~r.forceClose}

FaultCreateTrip ==
  /\ Pending(MaxRequests)
  /\ nextTripId <= MaxTrips
  /\ \E r \in FaultCreates, fail \in 0..1 :
       createTripWith(r.isBulk, r.freightAmount, r.advancePaid, r.agentId, fail)
  /\ Served
  /\ UNCHANGED inflight

FaultAddPayment ==
  /\ Pending(MaxRequests)
  /\ \E id \in TripIds, r \in FaultPayments, fail \in 0..2 :
       addPaymentWith(id, r.amount, r.agentId, r.userRole, r.userId, fail)
  /\ Served
  /\ UNCHANGED inflight

FaultUpdateDeductions ==
  /\ Pending(MaxRequests)
  /\ \E id \in TripIds, body \in LifecycleBodies, fail \in 0..2 :
       updateDeductionsWith(id, body, fail)
  /\ Served
  /\ UNCHANGED inflight

FaultCloseTrip ==
  /\ Pending(MaxRequests)
  /\ \E id \in TripIds, r \in FaultCloses, fail \in 0..4 :
       closeTripWith(id, r.forceClose, r.closedBy, r.closedByRole, fail)
  /\ Served
  /\ UNCHANGED inflight

FaultCreateDispute ==
  /\ Pending(MaxRequests)
  /\ Len(disputes) < MaxDisputes
  /\ \E tripId \in TripIds : createDispute(tripId, Agent1)
  /\ Served
  /\ UNCHANGED inflight

FaultResolveDispute ==
  /\ Pending(MaxRequests)
  /\ \E d \in 1..MaxDisputes, auditFails \in BOOLEAN :
       resolveDisputeWith(d, auditFails)
  /\ Served
  /\ UNCHANGED inflight

FaultDeleteTrip ==
  /\ Pending(MaxRequests)
  /\ \E id \in TripIds, auditFails \in BOOLEAN : deleteTripWith(id, auditFails)
  /\ Served
  /\ UNCHANGED inflight

NextFaults ==
  \/ FaultCreateTrip
  \/ FaultAddPayment
  \/ FaultUpdateDeductions
  \/ FaultCloseTrip
  \/ FaultCreateDispute
  \/ FaultResolveDispute
  \/ FaultDeleteTrip

SpecFaults == Init /\ [][NextFaults]_vars

\* ------------------------------------------- handlers that interleave
\* A handler gives way to the others at each await. inflight[s] is a handler
\* suspended between the read of the trip and its save: doc is the document
\* it read, existingEntry the Settlement entry its findOne returned.
Running(slots) == {s \in 1..MaxInflight : slots[s].op # ""}

Busy == Running(inflight)

Suspend(s, op, pc, id, req, doc, existingEntry) ==
  inflight' = [inflight EXCEPT ![s] =
                 [op |-> op, pc |-> pc, id |-> id, req |-> req, doc |-> doc,
                  existingEntry |-> existingEntry]]

Resume(s) == inflight' = [inflight EXCEPT ![s] = Idle]

\* addPayment up to "await trip.save()": the trip is read and checked
beginAddPayment(s, id, r) ==
  IF id \notin DOMAIN trips \/ ~paymentAllowed(trips[id])
  THEN /\ addPayment(id, r.amount, r.agentId, r.userRole, r.userId)
       /\ UNCHANGED inflight
  ELSE /\ Suspend(s, "addPayment", "read", id, r, trips[id], 0)
       /\ UNCHANGED <<trips, ledger, disputes, nextTripId, last>>

\* addPayment from "await trip.save()": the save sends the pushed payment
\* ($push) and the balance computed from the document that was read ($set),
\* then the ledger entries are written
finishAddPayment(s) ==
  LET id == inflight[s].id
      r == inflight[s].req
      trip == inflight[s].doc
      isFinancePayment == r.userRole = "Finance"
      targetAgentId == IF isFinancePayment THEN r.agentId ELSE r.userId
      paymentAmount == ParseFloat(r.amount)
      payment == [amount |-> paymentAmount.val,
                  addedBy |-> IF r.userId # Null THEN r.userId
                              ELSE targetAgentId,
                  addedByRole |-> IF r.userRole # "" THEN r.userRole
                                  ELSE "Agent"]
      balance == paymentBalance(trip, Append(trip.onTripPayments, payment))
  IN /\ inflight[s].op = "addPayment"
     /\ trips' = [trips EXCEPT ![id].onTripPayments = Append(@, payment),
                               ![id].balance = balance]
     /\ ledger' = IF isFinancePayment
                  THEN financeEntries(ledger, id, targetAgentId,
                                      paymentAmount.val, balance)
                  ELSE agentEntries(ledger, id, trip.agent, targetAgentId,
                                    paymentAmount.val, balance)
     /\ last' = Reply("addPayment", id, r, 200, "")
     /\ Resume(s)
     /\ UNCHANGED <<disputes, nextTripId>>

\* updateDeductions up to "await trip.save()"
beginUpdateDeductions(s, id, body) ==
  IF id \notin DOMAIN trips \/ trips[id].status = "Completed"
  THEN /\ updateDeductions(id, body)
       /\ UNCHANGED inflight
  ELSE /\ Suspend(s, "updateDeductions", "read", id, body, trips[id], 0)
       /\ UNCHANGED <<trips, ledger, disputes, nextTripId, last>>

\* updateDeductions from "await trip.save()" to the Ledger.findOne of the
\* Settlement entry: deductions and balance are saved as computed from the
\* document that was read
saveDeductions(s) ==
  LET id == inflight[s].id
      body == inflight[s].req
      trip == inflight[s].doc
      deductions == mergeDeductions(trip.deductions, body)
      totalDeductions ==
        sumEntries(deductions,
                   DOMAIN deductions \ {"othersReason", "addedBy", "addedByRole"})
      balance == (trip.freight - trip.advance) - totalDeductions
                   - sumPayments(trip.onTripPayments)
      deductionsAddedBy ==
        IF "addedBy" \in DOMAIN body /\ body.addedBy # Null THEN body.addedBy
        ELSE IF deductions.addedBy # Null THEN deductions.addedBy
        ELSE trip.agent
      writes == /\ totalDeductions > 0
                /\ deductionsAddedBy # Null
                /\ trip.status = "Active"
  IN /\ inflight[s].op = "updateDeductions"
     /\ inflight[s].pc = "read"
     /\ trips' = [trips EXCEPT ![id].deductions = deductions,
                               ![id].balance = balance]
     /\ IF writes
        THEN /\ Suspend(s, "updateDeductions", "saved", id, body,
                        [trip EXCEPT !.deductions = deductions],
                        findSettlement(ledger, id, deductionsAddedBy))
             /\ UNCHANGED last
        ELSE /\ Resume(s)
             /\ last' = Reply("updateDeductions", id, body, 200, "")
     /\ UNCHANGED <<ledger, disputes, nextTripId>>

\* updateDeductions after the Ledger.findOne: the entry that was found is
\* amended, or one is created when none was found
settleDeductions(s) ==
  LET id == inflight[s].id
      body == inflight[s].req
      trip == inflight[s].doc
      existingEntry == inflight[s].existingEntry
      totalDeductions ==
        sumEntries(trip.deductions,
                   DOMAIN trip.deductions \ {"othersReason", "addedBy", "addedByRole"})
      deductionsAddedBy ==
        IF "addedBy" \in DOMAIN body /\ body.addedBy # Null THEN body.addedBy
        ELSE IF trip.deductions.addedBy # Null THEN trip.deductions.addedBy
        ELSE trip.agent
      amended == [ledger EXCEPT ![existingEntry].amount = totalDeductions]
      updated == [amended EXCEPT ![existingEntry].balance =
                                   agentBalance(amended, deductionsAddedBy)]
      created ==
        Append(ledger, LedgerCreate(
          [tripId |-> id, type |-> "Settlement", amount |-> totalDeductions,
           balance |-> agentBalance(ledger, deductionsAddedBy) - totalDeductions,
           agent |-> deductionsAddedBy, direction |-> "Debit",
           deductionsAddedBy |-> deductionsAddedBy]))
  IN /\ inflight[s].op = "updateDeductions"
     /\ inflight[s].pc = "saved"
     /\ ledger' = IF existingEntry # 0 THEN updated ELSE created
     /\ last' = Reply("updateDeductions", id, body, 200, "")
     /\ Resume(s)
     /\ UNCHANGED <<trips, disputes, nextTripId>>

\* closeTrip up to the Settlement block: the trip and its open dispute are
\* read and the request is checked; a request that is refused, and the close
\* of a bulk trip, are answered at once
beginCloseTrip(s, id, r) ==
  IF \/ id \notin DOMAIN trips
     \/ creatorCloses(r.closedByRole, r.closedBy, trips[id].agent)
     \/ disputeBlocks(openDisputeExists(disputes, id), r.forceClose)
     \/ skipsSettlement(trips[id])
     \/ agentMustSettle(r.closedByRole, computeFinalBalance(trips[id]))
  THEN /\ closeTrip(id, r.forceClose, r.closedBy, r.closedByRole)
       /\ UNCHANGED inflight
  ELSE /\ Suspend(s, "closeTrip", "read", id, r, trips[id], 0)
       /\ UNCHANGED <<trips, ledger, disputes, nextTripId, last>>

\* closeTrip from the Settlement block: the entries are looked up and
\* written for the document that was read, which is then saved as Completed
finishCloseTrip(s) ==
  LET id == inflight[s].id
      r == inflight[s].req
      trip == inflight[s].doc
      betaAmount == OrZero(Num(trip.deductions.beta))
      finalBalance == computeFinalBalance(trip)
      closingAgentId == IF r.closedBy # Null THEN r.closedBy ELSE trip.agent
      settled == closeSettlements(ledger, id, trip)
      tripClosed ==
        Append(settled, LedgerCreate(
          [tripId |-> id, type |-> "Trip Closed", amount |-> finalBalance,
           balance |-> agentBalance(settled, closingAgentId),
           agent |-> closingAgentId, direction |-> "Debit",
           isInformational |-> TRUE]))
      betaCredit ==
        Append(tripClosed, LedgerCreate(
          [tripId |-> id, type |-> "Beta/Batta Credit", amount |-> betaAmount,
           balance |-> agentBalance(tripClosed, trip.agent) + betaAmount,
           agent |-> trip.agent, direction |-> "Credit"]))
  IN /\ inflight[s].op = "closeTrip"
     /\ trips' = [trips EXCEPT ![id].status = "Completed",
                               ![id].finalBalance = <<finalBalance>>,
                               ![id].closedBy = closingAgentId]
     /\ ledger' = IF creditsBeta(betaAmount) THEN betaCredit ELSE tripClosed
     /\ last' = Reply("closeTrip", id, r, 200, "")
     /\ Resume(s)
     /\ UNCHANGED <<disputes, nextTripId>>

\* createDispute up to "await Dispute.create": the request is checked, the
\* trip read and an Open dispute of the trip looked for
beginCreateDispute(s, tripId, agentId) ==
  IF \/ agentId = Null
     \/ tripId \notin DOMAIN trips
     \/ trips[tripId].agent # agentId
     \/ trips[tripId].status # "Active"
     \/ openDisputeExists(disputes, tripId)
  THEN /\ createDispute(tripId, agentId)
       /\ UNCHANGED inflight
  ELSE /\ Suspend(s, "createDispute", "read", tripId,
                  [tripId |-> tripId, agentId |-> agentId], trips[tripId], 0)
       /\ UNCHANGED <<trips, ledger, disputes, nextTripId, last>>

\* createDispute from "await Dispute.create": the dispute is created Open and
\* the trip saved with status In Dispute
finishCreateDispute(s) ==
  LET tripId == inflight[s].id
      req == inflight[s].req
  IN /\ inflight[s].op = "createDispute"
     /\ disputes' = Append(disputes, [tripId |-> tripId, agent |-> req.agentId,
                                      status |-> "Open"])
     /\ trips' = [trips EXCEPT ![tripId].status = "In Dispute"]
     /\ last' = Reply("createDispute", tripId, req, 201, "")
     /\ Resume(s)
     /\ UNCHANGED <<ledger, nextTripId>>

RaceCreates ==
  {r \in CreateRequests : r.agentId = Agent1 /\ r.advancePaid = <<>>}

RacePayments ==
  {r \in PaymentRequests :
     \/ r.userRole = "Finance" /\ r.agentId = Agent2 /\ r.amount = <<"2">>
     \/ r.userRole = "Agent" /\ r.userId = Agent2}

RaceBodies == {body \in DeductionBodies : DOMAIN body \subseteq {"cess", "kata"}}

RaceCloses ==
  {r \in CloseRequests :
     r.closedBy = Agent2 /\ r.closedByRole = "Admin" /\ ~r.forceClose}

\* a request is taken on while fewer than MaxRequests are served or running
Admitted == served + Cardinality(Busy) < MaxRequests

\* the slot a request that starts runs in
FreeSlot(s) ==
  /\ s \in 1..MaxInflight
  /\ inflight[s].op = ""
  /\ \A t \in 1..MaxInflight : inflight[t].op = "" => s <= t

RaceCreateTrip ==
  /\ Admitted
  /\ nextTripId <= MaxTrips
  /\ \E r \in RaceCreates :
       createTrip(r.isBulk, r.freightAmount, r.advancePaid, r.agentId)
  /\ Served
  /\ UNCHANGED inflight

RaceBeginAddPayment ==
  /\ Admitted
  /\ \E s \in 1..MaxInflight, id \in TripIds, r \in RacePayments :
       FreeSlot(s) /\ beginAddPayment(s, id, r)
  /\ UNCHANGED served

RaceFinishAddPayment ==
  /\ \E s \in Busy : finishAddPayment(s)
  /\ Served

RaceBeginUpdateDeductions ==
  /\ Admitted
  /\ \E s \in 1..MaxInflight, id \in TripIds, body \in RaceBodies :
       FreeSlot(s) /\ beginUpdateDeductions(s, id, body)
  /\ UNCHANGED served

RaceSaveDeductions ==
  /\ \E s \in Busy : saveDeductions(s)
  /\ served' = served + Cardinality(Busy) - Cardinality(Running(inflight'))

RaceSettleDeductions ==
  /\ \E s \in Busy : settleDeductions(s)
  /\ Served

RaceBeginCloseTrip ==
  /\ Admitted
  /\ \E s \in 1..MaxInflight, id \in TripIds, r \in RaceCloses :
       FreeSlot(s) /\ beginCloseTrip(s, id, r)
  /\ UNCHANGED served

RaceFinishCloseTrip ==
  /\ \E s \in Busy : finishCloseTrip(s)
  /\ Served

RaceBeginCreateDispute ==
  /\ Admitted
  /\ Len(disputes)
       + Cardinality({s \in Busy : inflight[s].op = "createDispute"}) < MaxDisputes
  /\ \E s \in 1..MaxInflight, tripId \in TripIds :
       FreeSlot(s) /\ beginCreateDispute(s, tripId, Agent1)
  /\ UNCHANGED served

RaceFinishCreateDispute ==
  /\ \E s \in Busy : finishCreateDispute(s)
  /\ Served

NextRace ==
  \/ RaceCreateTrip
  \/ RaceBeginAddPayment
  \/ RaceFinishAddPayment
  \/ RaceBeginUpdateDeductions
  \/ RaceSaveDeductions
  \/ RaceSettleDeductions
  \/ RaceBeginCloseTrip
  \/ RaceFinishCloseTrip
  \/ RaceBeginCreateDispute
  \/ RaceFinishCreateDispute

SpecRace == Init /\ [][NextRace]_vars

\* ------------------------------------------------------------ attachments
\* addAttachment up to "await trip.save()": the trip is read, the number of
\* its attachments is checked against the limit, then the upload
beginAddAttachment(s, id, r) ==
  IF id \notin DOMAIN trips
  THEN /\ Reject("addAttachment", id, r, 404, "Trip not found")
       /\ UNCHANGED inflight
  ELSE IF Len(trips[id].attachments) >= MaxAttachments
  THEN /\ Reject("addAttachment", id, r, 400,
                 "Maximum 4 attachments allowed per trip")
       /\ UNCHANGED inflight
  ELSE IF ~r.file
  THEN /\ Reject("addAttachment", id, r, 400, "No file uploaded")
       /\ UNCHANGED inflight
  ELSE /\ Suspend(s, "addAttachment", "read", id, r, trips[id], 0)
       /\ UNCHANGED <<trips, ledger, disputes, nextTripId, last>>

\* addAttachment from "await trip.save()": the save sends the pushed
\* attachment ($push), which the store appends to the array it holds
finishAddAttachment(s) ==
  LET id == inflight[s].id
      r == inflight[s].req
      trip == inflight[s].doc
      attachment == [uploadedBy |-> IF r.uploadedBy # Null THEN r.uploadedBy
                                    ELSE trip.agent]
  IN /\ inflight[s].op = "addAttachment"
     /\ trips' = [trips EXCEPT ![id].attachments = Append(@, attachment)]
     /\ last' = Reply("addAttachment", id, r, 200, "")
     /\ Resume(s)
     /\ UNCHANGED <<ledger, disputes, nextTripId>>

\* attachmentId is the _id of the attachment at that position of the array,
\* or of none when the array is shorter
deleteAttachment(id, attachmentId) ==
  LET trip == trips[id]
      kept == {i \in 1..Len(trip.attachments) : i # attachmentId}
      filtered == [i \in 1..Cardinality(kept) |->
                     trip.attachments[IF i < attachmentId THEN i ELSE i + 1]]
  IN IF id \notin DOMAIN trips
     THEN Reject("deleteAttachment", id, attachmentId, 404, "Trip not found")
     ELSE /\ trips' = [trips EXCEPT ![id].attachments = filtered]
          /\ last' = Reply("deleteAttachment", id, attachmentId, 200, "")
          /\ UNCHANGED <<ledger, disputes, nextTripId>>

AttachmentRequests ==
  {[file |-> f, uploadedBy |-> u] : f \in BOOLEAN, u \in {Null, Agent2}}

AttachCreateTrip ==
  /\ served < MaxRequests
  /\ nextTripId <= MaxTrips
  /\ \E r \in RaceCreates :
       createTrip(r.isBulk, r.freightAmount, r.advancePaid, r.agentId)
  /\ Served
  /\ UNCHANGED inflight

AttachBeginAddAttachment ==
  /\ \E s \in 1..MaxInflight, id \in TripIds, r \in AttachmentRequests :
       FreeSlot(s) /\ beginAddAttachment(s, id, r)
  /\ UNCHANGED served

AttachFinishAddAttachment ==
  /\ \E s \in Busy : finishAddAttachment(s)
  /\ UNCHANGED served

AttachDeleteAttachment ==
  /\ \E id \in TripIds, attachmentId \in 1..(MaxAttachments + 1) :
       deleteAttachment(id, attachmentId)
  /\ UNCHANGED <<served, inflight>>

NextAttach ==
  \/ AttachCreateTrip
  \/ AttachBeginAddAttachment
  \/ AttachFinishAddAttachment
  \/ AttachDeleteAttachment

SpecAttach == Init /\ [][NextAttach]_vars


\* ================================================================= claims
\* the trips that exist before and after a step
Kept == DOMAIN trips \cap DOMAIN trips'

\* number of ledger entries of one type that refer to trip t
CountEntries(l, t, type) ==
  Cardinality({i \in 1..Len(l) : l[i].tripId = t /\ l[i].type = type})

\* C1: Completed is terminal: no operation moves a Completed trip to Active
\* or In Dispute, resolveDispute after a forced close included.
C1_CompletedIsTerminal ==
  [][\A t \in Kept :
       trips[t].status = "Completed" => trips'[t].status = "Completed"]_vars

\* C2: closeTrip succeeds only from Active, or from In Dispute with
\* forceClose; on a Completed trip it is rejected and changes neither the
\* trip nor the ledger.
C2_CloseOnlyFromActive ==
  [][(last'.op = "closeTrip" /\ last'.id \in DOMAIN trips) =>
       LET status == trips[last'.id].status
       IN /\ last'.status = 200 =>
               \/ status = "Active"
               \/ status = "In Dispute" /\ last'.req.forceClose
          /\ status = "Completed" =>
               /\ last'.status >= 400
               /\ trips' = trips
               /\ ledger' = ledger]_vars

\* C3: a trip is settled at most once: finalBalance is written at most once,
\* and the ledger never holds two 'Trip Closed' or two 'Beta/Batta Credit'
\* entries of one trip.
C3_SettledAtMostOnce ==
  [][\A t \in TripIds :
       /\ CountEntries(ledger', t, "Trip Closed") <= 1
       /\ CountEntries(ledger', t, "Beta/Batta Credit") <= 1
       /\ (t \in Kept /\ trips[t].finalBalance # <<>>) =>
            ~(/\ last'.op = "closeTrip"
              /\ last'.id = t
              /\ last'.status = 200
              /\ ~trips[t].isBulk)]_vars

\* sum of the amounts of the entries of l at the positions in S
RECURSIVE SumAmounts(_, _)
SumAmounts(l, S) ==
  IF S = {} THEN 0
  ELSE LET i == CHOOSE j \in S : TRUE
       IN l[i].amount + SumAmounts(l, S \ {i})

\* credits minus debits over all entries of the agent, whatever their order
CreditsMinusDebits(l, agent) ==
  SumAmounts(l, {i \in 1..Len(l) : l[i].agent = agent /\ l[i].direction = "Credit"})
    - SumAmounts(l, {i \in 1..Len(l) : l[i].agent = agent /\ l[i].direction = "Debit"})

Reverse(l) == [i \in 1..Len(l) |-> l[Len(l) + 1 - i]]

\* position of the last entry of the given type, 0 when there is none
LastOfType(l, type) ==
  LET hits == {i \in 1..Len(l) : l[i].type = type}
  IN IF hits = {} THEN 0 ELSE CHOOSE i \in hits : \A j \in hits : j <= i

C5_StoredBalance ==
  \A t \in DOMAIN trips :
    LET trip == trips[t]
        d == trip.deductions
    IN trip.balance =
         trip.freight - trip.advance
           - (d.cess + d.kata + d.expenses + d.beta + d.others)
           - SumAmounts(trip.onTripPayments, 1..Len(trip.onTripPayments))

\* the number a request writes as an amount: 0 when it is left out
AmountOf(s) ==
  CASE s = <<"1">> -> 1
    [] s = <<"2">> -> 2
    [] OTHER -> 0

\* an entry as the claims describe it: every stored path but the balance
Entry(tripId, type, amount, agent, direction) ==
  [tripId |-> tripId, type |-> type, amount |-> amount, agent |-> agent,
   direction |-> direction]

Described(e) == Entry(e.tripId, e.type, e.amount, e.agent, e.direction)

\* the entries a step appended, and that it changed no earlier entry
Appended ==
  IF Len(ledger') >= Len(ledger)
     /\ SubSeq(ledger', 1, Len(ledger)) = ledger
  THEN [i \in 1..(Len(ledger') - Len(ledger)) |->
          Described(ledger'[Len(ledger) + i])]
  ELSE <<"not an append">>

\* C6: createTrip stores balance = freight - advance, all three 0 for a bulk
\* trip, and appends one Debit 'Trip Created' entry of the advance against
\* the creating agent exactly when the trip is not bulk and advance > 0,
\* no entry otherwise.
C6_CreateTrip ==
  [][(last'.op = "createTrip" /\ last'.status = 201) =>
       LET r == last'.req
           t == last'.id
           trip == trips'[t]
           freight == IF r.isBulk THEN 0 ELSE AmountOf(r.freightAmount)
           advance == IF r.isBulk THEN 0 ELSE AmountOf(r.advancePaid)
       IN /\ t \notin DOMAIN trips
          /\ trip.freight = freight
          /\ trip.advance = advance
          /\ trip.balance = freight - advance
          /\ Appended =
               IF ~r.isBulk /\ advance > 0
               THEN <<Entry(t, "Trip Created", advance, r.agentId, "Debit")>>
               ELSE <<>>]_vars

\* a regular trip was created with an advance, and the advance was debited
C6_Witness ==
  /\ last.op = "createTrip"
  /\ last.status = 201
  /\ ~last.req.isBulk
  /\ trips[last.id].advance > 0
  /\ trips[last.id].balance = 1
  /\ Len(ledger) = 1

\* C7: a Finance addPayment of amount A on an Active trip appends exactly a
\* Credit 'Top-up' of A and a Debit 'On-Trip Payment' of A, both against the
\* selected agent, whose folded balance is the same afterwards.
C7_FinancePayment ==
  [][(/\ last'.op = "addPayment"
      /\ last'.status = 200
      /\ last'.req.userRole = "Finance") =>
       LET r == last'.req
           t == last'.id
           A == AmountOf(r.amount)
       IN /\ trips[t].status = "Active"
          /\ Appended = <<Entry(t, "Top-up", A, r.agentId, "Credit"),
                          Entry(t, "On-Trip Payment", A, r.agentId, "Debit")>>
          /\ agentBalance(ledger', r.agentId) = agentBalance(ledger, r.agentId)]_vars

\* a Finance payment of a positive amount was accepted
C7_Witness ==
  /\ last.op = "addPayment"
  /\ last.status = 200
  /\ last.req.userRole = "Finance"
  /\ Len(ledger) >= 2
  /\ ledger[Len(ledger) - 1].type = "Top-up"
  /\ ledger[Len(ledger)].amount > 0

C9_PaymentsOnlyWhileActive ==
  [][/\ (/\ last'.op = "addPayment"
         /\ last'.id \in DOMAIN trips
         /\ trips[last'.id].status \in {"In Dispute", "Completed"}) =>
          /\ last'.status = 400
          /\ trips' = trips
          /\ ledger' = ledger
     /\ \A t \in Kept :
          trips[t].status # "Active" =>
            trips'[t].onTripPayments = trips[t].onTripPayments]_vars

\* a well-formed payment was refused on a trip that is not Active
C9_Witness ==
  /\ last.op = "addPayment"
  /\ last.status = 400
  /\ last.req.amount = <<"1">>
  /\ last.req.userId # Null
  /\ last.id \in DOMAIN trips
  /\ trips[last.id].status \in {"In Dispute", "Completed"}

\* C10: addPayment with a missing or unparseable amount is rejected with
\* InvalidInput (a 400 answer) and leaves the trip's payments, its balance
\* and the ledger unchanged.
C10_BadAmountIsInvalidInput ==
  [][(/\ last'.op = "addPayment"
      /\ last'.id \in DOMAIN trips
      /\ last'.req.amount \in {<<>>, <<"x">>}) =>
       /\ last'.status = 400
       /\ trips' = trips
       /\ ledger' = ledger]_vars

\* sum of the numeric deduction fields of a deductions record
DeductionTotal(d) == d.cess + d.kata + d.expenses + d.beta + d.others

\* who an updateDeductions request with this body saves the deductions as:
\* the adder the body names, else the one stored, else the trip's creator
Adder(trip, body) ==
  IF "addedBy" \in DOMAIN body THEN body.addedBy
  ELSE IF trip.deductions.addedBy # Null THEN trip.deductions.addedBy
  ELSE trip.agent

\* positions of the Settlement entries of trip t against agent a
Settlements(l, t, a) ==
  {i \in 1..Len(l) : l[i].tripId = t /\ l[i].agent = a /\ l[i].type = "Settlement"}

\* C11: after an updateDeductions call on an Active trip whose merged total
\* is greater than 0, whatever updates came before it, the ledger holds
\* exactly one Settlement entry for the trip and the deduction-adder, and its
\* amount is the latest merged total, not the sum of the successive totals.
C11_OneSettlementOfLatestTotal ==
  [][(/\ last'.op = "updateDeductions"
      /\ last'.status = 200
      /\ trips[last'.id].status = "Active") =>
       LET t == last'.id
           total == DeductionTotal(trips'[t].deductions)
           hits == Settlements(ledger', t, Adder(trips[t], last'.req))
       IN total > 0 =>
            /\ Cardinality(hits) = 1
            /\ \A i \in hits : ledger'[i].amount = total]_vars

\* a second update by the same adder replaced the amount of the Settlement
\* entry the first one created: beta was saved before, cess and kata now
C11_Witness ==
  /\ last.op = "updateDeductions"
  /\ last.status = 200
  /\ last.req = [cess |-> 2, kata |-> 1]
  /\ last.id \in DOMAIN trips
  /\ trips[last.id].status = "Active"
  /\ trips[last.id].deductions.beta = 1
  /\ \E i \in 1..Len(ledger) :
       /\ ledger[i].type = "Settlement"
       /\ ledger[i].tripId = last.id
       /\ ledger[i].amount = 4

\* C12: whenever updateDeductions succeeds with a merged total greater than
\* 0, the trip being Active or In Dispute, the ledger afterwards holds a
\* Settlement entry for the trip and the deduction-adder whose amount is the
\* merged total.
C12_SettlementWheneverTotalPositive ==
  [][(last'.op = "updateDeductions" /\ last'.status = 200) =>
       LET t == last'.id
           total == DeductionTotal(trips'[t].deductions)
           hits == Settlements(ledger', t, Adder(trips[t], last'.req))
       IN total > 0 => \E i \in hits : ledger'[i].amount = total]_vars

\* C13: deductions change only while the trip is Active: updateDeductions on
\* a trip that is In Dispute or Completed is rejected and leaves the
\* deductions, the balance and the ledger unchanged.
C13_DeductionsOnlyWhileActive ==
  [][(/\ last'.op = "updateDeductions"
      /\ last'.id \in DOMAIN trips
      /\ trips[last'.id].status \in {"In Dispute", "Completed"}) =>
       /\ last'.status >= 400
       /\ trips'[last'.id].deductions = trips[last'.id].deductions
       /\ trips'[last'.id].balance = trips[last'.id].balance
       /\ ledger' = ledger]_vars

\* C14: updateDeductions merges per field, last write wins: each field the
\* update names holds the supplied value afterwards, every other field keeps
\* its value, and the same update applied a second time changes neither the
\* deductions nor the balance.
C14_LastWriteWins ==
  [][(last'.op = "updateDeductions" /\ last'.status = 200) =>
       LET t == last'.id
           body == last'.req
       IN /\ \A k \in DeductionKeys :
               trips'[t].deductions[k] =
                 IF k \in DOMAIN body THEN body[k] ELSE trips[t].deductions[k]
          /\ (/\ last.op = "updateDeductions"
              /\ last.status = 200
              /\ last.id = t
              /\ last.req = body) =>
               /\ trips'[t].deductions = trips[t].deductions
               /\ trips'[t].balance = trips[t].balance]_vars

\* {cess: 0} came after {cess: 2, kata: 1}: cess holds the later value and
\* kata, which the later update did not name, holds the earlier one
C14_Witness ==
  /\ last.op = "updateDeductions"
  /\ last.status = 200
  /\ last.req = [cess |-> 0]
  /\ last.id \in DOMAIN trips
  /\ trips[last.id].deductions.cess = 0
  /\ trips[last.id].deductions.kata = 1

\* the trip has a dispute that is Open
HasOpenDispute(t) ==
  \E i \in 1..Len(disputes) : disputes[i].tripId = t /\ disputes[i].status = "Open"

\* a closeTrip request for a stored trip was answered in this step
CloseAnswered == last'.op = "closeTrip" /\ last'.id \in DOMAIN trips

\* the request of this step comes from the Agent who created the trip
ByCreatingAgent ==
  last'.req.closedByRole = "Agent" /\ last'.req.closedBy = trips[last'.id].agent

\* C15: closeTrip with closedByRole Agent and closedBy the creator of the
\* trip is rejected with the creator-cannot-close answer (Forbidden) for
\* every trip, bulk or regular, and the trip's status, its finalBalance and
\* the ledger stay as they were.
C15_CreatorCannotClose ==
  [][(CloseAnswered /\ ByCreatingAgent) =>
       /\ last'.status >= 400
       /\ last'.message = "Trip creator cannot close the trip"
       /\ trips'[last'.id].status = trips[last'.id].status
       /\ trips'[last'.id].finalBalance = trips[last'.id].finalBalance
       /\ ledger' = ledger]_vars

\* the Agent who created a bulk trip asked to close it and was refused
C15_Witness ==
  /\ last.op = "closeTrip"
  /\ last.status = 400
  /\ last.message = "Trip creator cannot close the trip"
  /\ last.req.closedByRole = "Agent"
  /\ last.id \in DOMAIN trips
  /\ trips[last.id].isBulk
  /\ trips[last.id].status = "Active"
  /\ last.req.closedBy = trips[last.id].agent

\* C16: closeTrip without forceClose on a trip that has an Open dispute is
\* rejected and leaves trip and ledger unchanged, with the open-dispute
\* answer (Conflict) unless the creator rule, which is checked first, has
\* already refused the request; with forceClose and role Admin the request
\* completes the trip.
C16_OpenDisputeGate ==
  [][(CloseAnswered /\ HasOpenDispute(last'.id)) =>
       /\ ~last'.req.forceClose =>
            /\ last'.status >= 400
            /\ trips' = trips
            /\ ledger' = ledger
            /\ ~ByCreatingAgent =>
                 last'.message = "Cannot close trip with open dispute"
       /\ (last'.req.forceClose /\ last'.req.closedByRole = "Admin") =>
            /\ last'.status = 200
            /\ trips'[last'.id].status = "Completed"]_vars

\* an Admin closed a trip whose dispute is still Open, with forceClose
C16_Witness ==
  /\ last.op = "closeTrip"
  /\ last.status = 200
  /\ last.req.forceClose
  /\ last.req.closedByRole = "Admin"
  /\ last.id \in DOMAIN trips
  /\ HasOpenDispute(last.id)
  /\ trips[last.id].status = "Completed"

\* C17: only Admin or Finance can override the open-dispute gate: a
\* closeTrip request with closedByRole Agent never completes a trip that
\* has an Open dispute, with or without forceClose.
C17_AgentCannotForceClose ==
  [][(/\ CloseAnswered
      /\ HasOpenDispute(last'.id)
      /\ last'.req.closedByRole = "Agent") =>
       /\ last'.status >= 400
       /\ trips'[last'.id].status = trips[last'.id].status]_vars

\* sum of the payment amounts of a trip made by Finance (fin) or by others
PaidBy(trip, fin) ==
  SumAmounts(trip.onTripPayments,
             {i \in 1..Len(trip.onTripPayments) :
                (trip.onTripPayments[i].addedByRole = "Finance") = fin})

\* C18: a successful close of a regular trip stores finalBalance =
\* (freight - advance) - (cess + kata + expenses + others, the deduction
\* fields other than beta and the free-text reason) - (payments not made by
\* Finance) + (payments made by Finance).
C18_FinalBalance ==
  [][(/\ CloseAnswered
      /\ last'.status = 200
      /\ ~trips[last'.id].isBulk) =>
       LET trip == trips[last'.id]
           d == trip.deductions
       IN trips'[last'.id].finalBalance =
            << (trip.freight - trip.advance)
                 - (d.cess + d.kata + d.expenses + d.others)
                 - PaidBy(trip, FALSE) + PaidBy(trip, TRUE) >>]_vars

\* C19: for a closer of role Agent and a regular trip, closeTrip succeeds
\* exactly when the computed finalBalance is 0 (the creator rule and the
\* open-dispute gate having let the request through); with a nonzero
\* finalBalance it is rejected whatever the closer's ledger balance, and the
\* trip's status, its finalBalance and the ledger do not change.
C19_AgentClosesOnlyAtZero ==
  [][(/\ CloseAnswered
      /\ last'.req.closedByRole = "Agent"
      /\ ~trips[last'.id].isBulk) =>
       LET t == last'.id
           finalBalance == computeFinalBalance(trips[t])
       IN /\ last'.status = 200 => finalBalance = 0
          /\ (/\ finalBalance = 0
              /\ ~ByCreatingAgent
              /\ (HasOpenDispute(t) => last'.req.forceClose)) =>
               /\ last'.status = 200
               /\ trips'[t].status = "Completed"
          /\ finalBalance # 0 =>
               /\ last'.status >= 400
               /\ trips'[t].status = trips[t].status
               /\ trips'[t].finalBalance = trips[t].finalBalance
               /\ ledger' = ledger]_vars

\* an Agent who is not the creator closed a regular trip that owed nothing
C19_Witness ==
  /\ last.op = "closeTrip"
  /\ last.status = 200
  /\ last.req.closedByRole = "Agent"
  /\ last.id \in DOMAIN trips
  /\ ~trips[last.id].isBulk
  /\ last.req.closedBy # trips[last.id].agent
  /\ trips[last.id].finalBalance = <<0>>
  /\ trips[last.id].status = "Completed"

\* C20: a successful close of a regular trip does not change the folded
\* ledger balance of the closer, whatever the closer's role and whatever
\* finalBalance is.
C20_CloseIsBalanceNeutral ==
  [][(/\ CloseAnswered
      /\ last'.status = 200
      /\ ~trips[last'.id].isBulk) =>
       LET closer == IF last'.req.closedBy # Null THEN last'.req.closedBy
                     ELSE trips[last'.id].agent
       IN agentBalance(ledger', closer) = agentBalance(ledger, closer)]_vars

\* C21: a successful close of a regular trip appends a Credit 'Beta/Batta
\* Credit' entry of amount beta against the agent who created the trip
\* exactly when the trip's beta deduction is greater than 0, and the entry
\* raises that agent's folded balance by beta.
C21_BetaCredit ==
  [][(/\ CloseAnswered
      /\ last'.status = 200
      /\ ~trips[last'.id].isBulk) =>
       LET t == last'.id
           beta == trips[t].deductions.beta
           creator == trips[t].agent
           n == Len(ledger')
           credits == {i \in (Len(ledger) + 1)..n :
                         ledger'[i].type = "Beta/Batta Credit"}
       IN IF beta > 0
          THEN /\ credits = {n}
               /\ Described(ledger'[n]) =
                    Entry(t, "Beta/Batta Credit", beta, creator, "Credit")
               /\ agentBalance(ledger', creator) =
                    agentBalance(SubSeq(ledger', 1, n - 1), creator) + beta
          ELSE credits = {}]_vars

\* a regular trip with beta 1 was closed and its creator holds the credit
C21_Witness ==
  /\ last.op = "closeTrip"
  /\ last.status = 200
  /\ last.id \in DOMAIN trips
  /\ ~trips[last.id].isBulk
  /\ trips[last.id].deductions.beta = 1
  /\ Len(ledger) > 0
  /\ ledger[Len(ledger)].type = "Beta/Batta Credit"
  /\ ledger[Len(ledger)].agent = trips[last.id].agent
  /\ ledger[Len(ledger)].amount = 1

\* C22: closing a bulk trip that the creator rule and the open-dispute gate
\* let through sets its status to Completed for every closer role, computes
\* no finalBalance, applies no zero-balance check and appends no ledger
\* entry, whatever deductions and payments the trip has.
C22_BulkClose ==
  [][(/\ CloseAnswered
      /\ trips[last'.id].isBulk
      /\ ~ByCreatingAgent
      /\ (HasOpenDispute(last'.id) => last'.req.forceClose)) =>
       /\ last'.status = 200
       /\ trips'[last'.id].status = "Completed"
       /\ trips'[last'.id].finalBalance = trips[last'.id].finalBalance
       /\ ledger' = ledger]_vars

\* an Agent closed a bulk trip whose deductions leave a balance that is not 0
C22_Witness ==
  /\ last.op = "closeTrip"
  /\ last.status = 200
  /\ last.req.closedByRole = "Agent"
  /\ last.id \in DOMAIN trips
  /\ trips[last.id].isBulk
  /\ trips[last.id].status = "Completed"
  /\ trips[last.id].balance # 0
  /\ trips[last.id].finalBalance = <<>>

\* positions of the Open disputes of trip t
OpenDisputes(t) ==
  {i \in 1..Len(disputes) : disputes[i].tripId = t /\ disputes[i].status = "Open"}

\* C23: in every state that sequential createDispute, resolveDispute,
\* closeTrip and updateTrip requests lead to, a trip has at most one dispute
\* whose status is Open.
C23_AtMostOneOpenDispute ==
  \A t \in TripIds : Cardinality(OpenDisputes(t)) <= 1

\* a trip got a second dispute after its first one was resolved
C23_Witness ==
  \E i, j \in 1..Len(disputes) :
    /\ i # j
    /\ disputes[i].tripId = disputes[j].tripId
    /\ disputes[i].status = "Resolved"
    /\ disputes[j].status = "Open"

\* C24: resolveDispute on an Open dispute sets the dispute to Resolved and
\* its trip to Active; on a Resolved dispute it is rejected and changes
\* neither the disputes nor the trips; no step changes the status of a
\* dispute other than from Open to Resolved.
C24_ResolveDispute ==
  [][/\ (last'.op = "resolveDispute" /\ last'.id \in 1..Len(disputes)) =>
          LET d == last'.id
              t == disputes[d].tripId
          IN IF disputes[d].status = "Open"
             THEN /\ last'.status = 200
                  /\ disputes'[d].status = "Resolved"
                  /\ t \in DOMAIN trips => trips'[t].status = "Active"
             ELSE /\ last'.status >= 400
                  /\ disputes' = disputes
                  /\ trips' = trips
     /\ Len(disputes') >= Len(disputes)
     /\ \A i \in 1..Len(disputes) :
          disputes'[i].status # disputes[i].status =>
            disputes[i].status = "Open" /\ disputes'[i].status = "Resolved"]_vars

\* a dispute was resolved and its trip, which was In Dispute, is Active
C24_Witness ==
  /\ last.op = "resolveDispute"
  /\ last.status = 200
  /\ last.id \in 1..Len(disputes)
  /\ disputes[last.id].status = "Resolved"
  /\ disputes[last.id].tripId \in DOMAIN trips
  /\ trips[disputes[last.id].tripId].status = "Active"

\* C30: no single command appends more than 3 ledger entries, a closeTrip on
\* a trip with beta > 0 whose deductions were saved by an agent other than
\* the creator, neither of them having a Settlement entry yet, included.
C30_AtMostThreeEntries ==
  [][Len(ledger') - Len(ledger) <= 3]_vars

\* C25: a Ledger write that throws during createTrip, addPayment,
\* updateDeductions or closeTrip neither undoes nor fails the request: the
\* trip is stored with the change of the request (created, payment added,
\* deductions merged, status Completed) and the answer is a success.
C25_LedgerFailureKeepsMutation ==
  [][last'.failed = "ledger" =>
       LET t == last'.id
           r == last'.req
       IN /\ last'.op \in {"createTrip", "addPayment", "updateDeductions",
                           "closeTrip"}
          /\ last'.status < 400
          /\ t \in DOMAIN trips'
          /\ last'.op = "createTrip" => t \notin DOMAIN trips
          /\ last'.op = "addPayment" =>
               /\ Len(trips'[t].onTripPayments) = Len(trips[t].onTripPayments) + 1
               /\ trips'[t].onTripPayments[Len(trips'[t].onTripPayments)].amount
                    = AmountOf(r.amount)
          /\ last'.op = "updateDeductions" =>
               \A k \in DOMAIN r : trips'[t].deductions[k] = r[k]
          /\ last'.op = "closeTrip" =>
               /\ trips'[t].status = "Completed"
               /\ trips'[t].finalBalance # <<>>]_vars

\* the 'Beta/Batta Credit' write of a close threw: the trip is Completed, the
\* answer is a success and the ledger holds no such entry
C25_Witness ==
  /\ last.op = "closeTrip"
  /\ last.failed = "ledger"
  /\ last.status = 200
  /\ last.id \in DOMAIN trips
  /\ trips[last.id].status = "Completed"
  /\ trips[last.id].deductions.beta > 0
  /\ \A i \in 1..Len(ledger) : ledger[i].type # "Beta/Batta Credit"
  /\ \E i \in 1..Len(ledger) : ledger[i].type = "Trip Closed"

C27_NoLostUpdate ==
  \A t \in DOMAIN trips :
    (Busy = {} /\ trips[t].status = "Active") =>
      trips[t].balance =
        trips[t].freight - trips[t].advance
          - DeductionTotal(trips[t].deductions)
          - sumPayments(trips[t].onTripPayments)

\* C28: under any interleaving of updateDeductions and closeTrip requests on
\* the same trip, the ledger never holds two Settlement entries of the same
\* trip and agent.
C28_OneSettlementPerTripAndAgent ==
  \A i, j \in 1..Len(ledger) :
    (/\ ledger[i].type = "Settlement"
     /\ ledger[j].type = "Settlement"
     /\ ledger[i].tripId = ledger[j].tripId
     /\ ledger[i].agent = ledger[j].agent) => i = j

\* C29: a trip never has more than 4 attachments in any reachable state,
\* including when addAttachment requests on the same trip interleave.
C29_AtMostFourAttachments ==
  \A t \in DOMAIN trips : Len(trips[t].attachments) <= MaxAttachments

\* C31: after a successful closeTrip request that supplies closedBy, the
\* closedBy stored on the trip is the closer the request named, for bulk
\* and regular trips alike.
C31_ClosedByIsTheCloser ==
  [][(/\ CloseAnswered
      /\ last'.status = 200
      /\ last'.req.closedBy # Null) =>
       trips'[last'.id].closedBy = last'.req.closedBy]_vars

\* the step is a successful close of a regular trip whose deductions were
\* saved by an agent other than its creator
ClosedWithMismatch ==
  /\ CloseAnswered
  /\ last'.status = 200
  /\ ~trips[last'.id].isBulk
  /\ trips[last'.id].deductions.addedBy # Null
  /\ trips[last'.id].deductions.addedBy # trips[last'.id].agent

\* the Settlement entries of the creator of the trip of this step are one
\* Debit entry after it, and the one there was before it if there was one
OneCreatorSettlement ==
  LET t == last'.id
      creator == trips[t].agent
      before == Settlements(ledger, t, creator)
      after == Settlements(ledger', t, creator)
  IN /\ Cardinality(after) = 1
     /\ \A i \in after : ledger'[i].direction = "Debit"
     /\ before # {} => after = before

C33_AmountsAreNonNegative ==
  \A i \in 1..Len(ledger) : ledger[i].amount >= 0

\* C34: the ledger is append-only: no step, deleteTrip of the originating
\* trip included, removes an entry, and the only entries a step changes in
\* place are Settlement entries, in their amount and balance; every other
\* entry stays as it was created.
C34_LedgerIsAppendOnly ==
  [][/\ Len(ledger') >= Len(ledger)
     /\ \A i \in 1..Len(ledger) :
          \/ ledger'[i] = ledger[i]
          \/ /\ ledger[i].type = "Settlement"
             /\ ledger'[i] = [ledger[i] EXCEPT !.amount = ledger'[i].amount,
                                               !.balance = ledger'[i].balance]]_vars

\* a trip was deleted and the ledger still holds an entry of it
C34_Witness ==
  /\ last.op = "deleteTrip"
  /\ last.status = 200
  /\ last.id \notin DOMAIN trips
  /\ \E i \in 1..Len(ledger) : ledger[i].tripId = last.id

\* C35: closeTrip by a closer whose role is not Agent, on an Active regular
\* trip with no Open dispute, succeeds and sets the status Completed whatever
\* finalBalance is: positive, zero or negative.
C35_NonAgentCloseSucceeds ==
  [][(/\ CloseAnswered
      /\ last'.req.closedByRole # "Agent"
      /\ ~trips[last'.id].isBulk
      /\ trips[last'.id].status = "Active"
      /\ ~HasOpenDispute(last'.id)) =>
       /\ last'.status = 200
       /\ trips'[last'.id].status = "Completed"
       /\ trips'[last'.id].finalBalance = <<computeFinalBalance(trips[last'.id])>>]_vars

\* Finance or Admin closed a regular trip whose finalBalance is below 0
C35_Witness ==
  /\ last.op = "closeTrip"
  /\ last.status = 200
  /\ last.req.closedByRole \in {"Admin", "Finance"}
  /\ last.id \in DOMAIN trips
  /\ ~trips[last.id].isBulk
  /\ trips[last.id].status = "Completed"
  /\ trips[last.id].finalBalance = <<-1>>

\* C36: in every reachable state a trip whose status is In Dispute has an
\* Open dispute that refers to it.
C36_InDisputeHasOpenDispute ==
  \A t \in DOMAIN trips :
    trips[t].status = "In Dispute" => HasOpenDispute(t)

\* C37: after every updateDeductions on an Active trip, a Settlement entry
\* of the trip and the deduction-adder, when there is one, has the trip's
\* merged deduction total as its amount, also when the update lowers the
\* total to 0.
C37_SettlementFollowsTotal ==
  [][(/\ last'.op = "updateDeductions"
      /\ last'.status = 200
      /\ trips[last'.id].status = "Active") =>
       LET t == last'.id
       IN \A i \in Settlements(ledger', t, Adder(trips[t], last'.req)) :
            ledger'[i].amount = DeductionTotal(trips'[t].deductions)]_vars

\* C38: when addPayment and closeTrip on the same trip interleave, a
\* Completed regular trip holds no payment that its finalBalance does not
\* account for: in every reachable state with status Completed, finalBalance
\* is the closure formula applied to the payments and deductions stored.
C38_FinalBalanceCoversPayments ==
  \A t \in DOMAIN trips :
    (trips[t].status = "Completed" /\ ~trips[t].isBulk) =>
      trips[t].finalBalance = <<computeFinalBalance(trips[t])>>

\* C39: when two createDispute requests for the same Active trip interleave,
\* at most one of them creates an Open dispute: no two Open disputes refer
\* to the same trip.
C39_OneOpenDisputeWhenInterleaved ==
  \A i, j \in 1..Len(disputes) :
    (/\ disputes[i].status = "Open"
     /\ disputes[j].status = "Open"
     /\ disputes[i].tripId = disputes[j].tripId) => i = j

====
